---- MODULE Spec2Model ----
(***************************************************************************)
(* The "http" source of vector (src/sources/http.rs): the body decoder     *)
(* (decode_body and its helpers), the enricher (add_headers,               *)
(* add_query_parameters, add_path, the source-type insert of build_event)  *)
(* and the request handling of the generic HTTP source server that calls   *)
(* build_event and pushes the batch into the Pipeline.                     *)
(*                                                                         *)
(* Byte strings are sequences of tokens.  A token stands for a fixed,      *)
(* newline-free run of bytes: the newline byte itself, the JSON            *)
(* punctuation "[", "]" and ",", one JSON scalar literal of each kind, and *)
(* two complete JSON object literals.                                      *)
(***************************************************************************)
EXTENDS Naturals, Sequences, FiniteSets

\* ------------------------------------------------------------------ bounds
MaxLen == 5       \* longest payload drawn for decode_body, in tokens
MaxReq == 2       \* requests handled by one source instance
MaxClock == 1     \* latest reading of the wall clock

\* ------------------------------------------------------------------ bytes
NL == "\n"
LB == "["
RB == "]"
COMMA == ","
TStr == "\"s\""
TNum == "1.5"
TBool == "true"
TNull == "null"
\* {"key":"value"}
Obj1 == "{key}"
\* {"key":"other","h1":"user","q1":"user","x":"user","path":"user",
\*  "source_type":"user","timestamp":"user"}
Obj2 == "{user}"

ObjTokens == {Obj1, Obj2}
ScalarTokens == {TStr, TNum, TBool, TNull}
Alphabet == {NL, LB, RB, COMMA, Obj1, Obj2, TStr, TNum, TBool, TNull}

SeqsUpTo(S, n) == UNION {[1..k -> S] : k \in 0..n}

\* ------------------------------------------------------------------ values
\* event::Value: the variants this source produces.
Bytes(b) == [t |-> "Bytes", b |-> b, n |-> 0]
Null == [t |-> "Null", b |-> <<>>, n |-> 0]
Timestamp(n) == [t |-> "Timestamp", b |-> <<>>, n |-> n]

\* log_schema() key names (the defaults).
message_key == "message"
timestamp_key == "timestamp"
source_type_key == "source_type"

\* A LogEvent is a function from its keys to their values.
new_empty_log == [k \in {} |-> Null]

\* LogEvent::insert / insert_flat: set the key, replacing what it held.  The
\* keys of the model hold no "." (insert reads a dotted key as a nested path).
insert(log, k, v) == [x \in DOMAIN log \cup {k} |-> IF x = k THEN v ELSE log[x]]

\* LogEvent::try_insert: set the key only when the log does not hold it.
try_insert(log, k, v) == IF k \in DOMAIN log THEN log ELSE insert(log, k, v)

\* The fields of the two object literals, as insert_flat stores them.
user == Bytes(<<"user">>)
ObjFields(tok) ==
  IF tok = Obj1 THEN [k \in {"key"} |-> Bytes(<<"value">>)]
  ELSE [k \in {"key", "h1", "q1", "x", "path", source_type_key, timestamp_key} |->
          IF k = "key" THEN Bytes(<<"other">>) ELSE user]

\* ------------------------------------------------------------------ errors
BAD_REQUEST == 400
ErrorMessage(code, msg) == [ok |-> FALSE, status |-> code, message |-> msg, events |-> <<>>]
Ok(events) == [ok |-> TRUE, status |-> 200, message |-> <<>>, events |-> events]

\* json_error: "Bad JSON: " in front of the text.
json_error(s) == ErrorMessage(BAD_REQUEST, <<"Bad JSON">> \o s)

\* ------------------------------------------------------------------ JSON
\* serde_json::Value, by kind.  An Object keeps the literal it was read from,
\* an Array its elements.
JsonObject(tok) == [kind |-> "Object", tok |-> tok, elems |-> <<>>]
JsonArray(elems) == [kind |-> "Array", tok |-> "", elems |-> elems]
JsonScalar(tok) ==
  [kind |-> IF tok = TStr THEN "String" ELSE IF tok = TNum THEN "Number"
            ELSE IF tok = TBool THEN "Bool" ELSE "Null",
   tok |-> tok, elems |-> <<>>]

ParseFail == [ok |-> FALSE, val |-> JsonScalar(TNull), next |-> 0]
ParseOk(v, i) == [ok |-> TRUE, val |-> v, next |-> i]

\* JSON whitespace between tokens: the parser skips it (here, the newline).
RECURSIVE SkipWs(_, _)
SkipWs(s, i) == IF i <= Len(s) /\ s[i] = NL THEN SkipWs(s, i + 1) ELSE i

\* One JSON value starting at position i: an object literal, a scalar literal,
\* or "[" value ("," value)* "]" with whitespace allowed between the tokens.
RECURSIVE ParseValue(_, _)
RECURSIVE ParseElems(_, _, _)
ParseValue(s, i) ==
  IF i > Len(s) THEN ParseFail
  ELSE IF s[i] \in ObjTokens THEN ParseOk(JsonObject(s[i]), i + 1)
  ELSE IF s[i] \in ScalarTokens THEN ParseOk(JsonScalar(s[i]), i + 1)
  ELSE IF s[i] = LB THEN
    LET j == SkipWs(s, i + 1) IN
      IF j <= Len(s) /\ s[j] = RB THEN ParseOk(JsonArray(<<>>), j + 1)
      ELSE ParseElems(s, j, <<>>)
  ELSE ParseFail

ParseElems(s, i, acc) ==
  LET r == ParseValue(s, i) IN
    IF ~r.ok THEN ParseFail
    ELSE LET j == SkipWs(s, r.next)
             acc2 == Append(acc, r.val)
         IN IF j > Len(s) THEN ParseFail
            ELSE IF s[j] = COMMA THEN ParseElems(s, SkipWs(s, j + 1), acc2)
            ELSE IF s[j] = RB THEN ParseOk(JsonArray(acc2), j + 1)
            ELSE ParseFail

\* serde_json::from_slice: exactly one value, whitespace around it, nothing after.
from_slice(s) ==
  LET r == ParseValue(s, SkipWs(s, 1)) IN
    IF r.ok /\ SkipWs(s, r.next) > Len(s) THEN [ok |-> TRUE, val |-> r.val]
    ELSE [ok |-> FALSE, val |-> r.val]

\* The Debug text of a serde_json::Error: a syntax diagnostic with its position.
SerdeError == "Error(syntax, line, column)"

json_value_to_type_string(value) == value.kind

\* ------------------------------------------------------------------ decoder
\* BytesDelimitedCodec::decode_eof on the buffer: the bytes before the first
\* delimiter (which is consumed), or at the end the non-empty remainder.
FirstNL(buf) == CHOOSE i \in 1..Len(buf) : buf[i] = NL /\ \A j \in 1..(i - 1) : buf[j] # NL
decode_eof(buf) ==
  IF \E i \in 1..Len(buf) : buf[i] = NL
    THEN [some |-> TRUE, frame |-> SubSeq(buf, 1, FirstNL(buf) - 1),
          rest |-> SubSeq(buf, FirstNL(buf) + 1, Len(buf))]
  ELSE IF buf # <<>> THEN [some |-> TRUE, frame |-> buf, rest |-> <<>>]
  ELSE [some |-> FALSE, frame |-> <<>>, rest |-> <<>>]

\* The frames the from_fn iterator yields until decode_eof answers None.
RECURSIVE Frames(_)
Frames(buf) ==
  LET r == decode_eof(buf) IN
    IF r.some THEN <<r.frame>> \o Frames(r.rest) ELSE <<>>

NonEmpty(b) == b # <<>>

\* Mutant: the filter of empty lines is left out.
body_to_lines_NoFilter(buf) == Frames(buf)

body_to_lines(buf) == SelectSeq(Frames(buf), NonEmpty)

\* Event::from(Bytes): the message and the time it was made.
EventFromBytes(b, now) ==
  insert(insert(new_empty_log, message_key, Bytes(b)), timestamp_key, Timestamp(now))

RECURSIVE InsertAll(_, _, _)
InsertAll(log, fields, keys) ==
  IF keys = {} THEN log
  ELSE LET k == CHOOSE x \in keys : TRUE IN
         InsertAll(insert(log, k, fields[k]), fields, keys \ {k})

\* Mutant: the timestamp is inserted after the object's fields, not before.
json_parse_object_TimestampLast(value, now) ==
  IF value.kind = "Object"
    THEN Ok(<<insert(InsertAll(new_empty_log, ObjFields(value.tok),
                               DOMAIN ObjFields(value.tok)),
                     timestamp_key, Timestamp(now))>>)
  ELSE json_error(<<"Expected Object, got", json_value_to_type_string(value)>>)

json_parse_object(value, now) ==
  LET log == insert(new_empty_log, timestamp_key, Timestamp(now)) IN
    IF value.kind = "Object"
      THEN Ok(<<InsertAll(log, ObjFields(value.tok), DOMAIN ObjFields(value.tok))>>)
    ELSE json_error(<<"Expected Object, got", json_value_to_type_string(value)>>)

\* Iterator::collect::<Result<Vec<_>, _>>(): the events in order, or the first error.
RECURSIVE Collect(_)
Collect(results) ==
  IF results = <<>> THEN Ok(<<>>)
  ELSE IF ~Head(results).ok THEN Head(results)
  ELSE LET rest == Collect(Tail(results)) IN
         IF rest.ok THEN Ok(Head(results).events \o rest.events) ELSE rest

Map(f(_), s) == [i \in 1..Len(s) |-> f(s[i])]

\* Mutant: a single object is not treated like an array of one object.
json_parse_array_of_object_ArrayOnly(value, now) ==
  LET one(v) == json_parse_object(v, now) IN
    IF value.kind = "Array" THEN Collect(Map(one, value.elems))
    ELSE json_error(<<"Expected Array or Object, got", json_value_to_type_string(value)>>)

\* Mutant: the elements of an array that are no objects are passed over.
IsOkResult(r) == r.ok
json_parse_array_of_object_SkipNonObjects(value, now) ==
  LET one(v) == json_parse_object(v, now) IN
    IF value.kind = "Array" THEN Collect(SelectSeq(Map(one, value.elems), IsOkResult))
    ELSE IF value.kind = "Object" THEN json_parse_object(value, now)
    ELSE json_error(<<"Expected Array or Object, got", json_value_to_type_string(value)>>)

json_parse_array_of_object(value, now) ==
  LET one(v) == json_parse_object(v, now) IN
    IF value.kind = "Array" THEN Collect(Map(one, value.elems))
    ELSE IF value.kind = "Object" THEN json_parse_object(value, now)
    ELSE json_error(<<"Expected Array or Object, got", json_value_to_type_string(value)>>)

\* Mutant: an Ndjson line that does not decode is passed over.
decode_body_LenientNdjson(body, enc, now) ==
  LET text(line) == Ok(<<EventFromBytes(line, now)>>)
      ndjson(line) ==
        LET parsed == from_slice(line) IN
          IF ~parsed.ok THEN json_error(<<"Error parsing Ndjson", SerdeError>>)
          ELSE json_parse_object(parsed.val, now)
  IN CASE enc = "Text" -> Collect(Map(text, body_to_lines(body)))
       [] enc = "Ndjson" -> Collect(SelectSeq(Map(ndjson, body_to_lines(body)), IsOkResult))
       [] enc = "Json" ->
            LET parsed == from_slice(body) IN
              IF ~parsed.ok THEN json_error(<<"Error parsing Json", SerdeError>>)
              ELSE json_parse_array_of_object(parsed.val, now)

decode_body(body, enc, now) ==
  LET text(line) == Ok(<<EventFromBytes(line, now)>>)
      ndjson(line) ==
        LET parsed == from_slice(line) IN
          IF ~parsed.ok THEN json_error(<<"Error parsing Ndjson", SerdeError>>)
          ELSE json_parse_object(parsed.val, now)
  IN CASE enc = "Text" -> Collect(Map(text, body_to_lines(body)))
       [] enc = "Ndjson" -> Collect(Map(ndjson, body_to_lines(body)))
       [] enc = "Json" ->
            LET parsed == from_slice(body) IN
              IF ~parsed.ok THEN json_error(<<"Error parsing Json", SerdeError>>)
              ELSE json_parse_array_of_object(parsed.val, now)

\* ------------------------------------------------------------------ enricher
\* Option<&V> of a map lookup, turned into a Value: the bytes, or Null for None.
ValueFromLookup(map, name) == IF name \in DOMAIN map THEN Bytes(map[name]) ELSE Null

InsertEach(events, k, v) == [i \in DOMAIN events |-> insert(events[i], k, v)]

\* Mutant: an absent header is not inserted at all.
RECURSIVE add_headers_SkipAbsent(_, _, _)
add_headers_SkipAbsent(events, headers_config, headers) ==
  IF headers_config = <<>> THEN events
  ELSE add_headers_SkipAbsent(
         IF Head(headers_config) \in DOMAIN headers
           THEN InsertEach(events, Head(headers_config), Bytes(headers[Head(headers_config)]))
         ELSE events,
         Tail(headers_config), headers)

\* Mutant: a header does not replace a field the record already holds.
RECURSIVE add_headers_KeepExisting(_, _, _)
add_headers_KeepExisting(events, headers_config, headers) ==
  IF headers_config = <<>> THEN events
  ELSE add_headers_KeepExisting(
         [i \in DOMAIN events |->
            try_insert(events[i], Head(headers_config),
                       ValueFromLookup(headers, Head(headers_config)))],
         Tail(headers_config), headers)

RECURSIVE add_headers(_, _, _)
add_headers(events, headers_config, headers) ==
  IF headers_config = <<>> THEN events
  ELSE add_headers(
         InsertEach(events, Head(headers_config),
                    ValueFromLookup(headers, Head(headers_config))),
         Tail(headers_config), headers)

\* sources::util::add_query_parameters: the rule of add_headers, for the query.
RECURSIVE add_query_parameters(_, _, _)
add_query_parameters(events, query_parameters_config, query_parameters) ==
  IF query_parameters_config = <<>> THEN events
  ELSE add_query_parameters(
         InsertEach(events, Head(query_parameters_config),
                    ValueFromLookup(query_parameters, Head(query_parameters_config))),
         Tail(query_parameters_config), query_parameters)

\* Mutant: the batch is rebuilt back to front.
add_path_Reversed(events, key, path) ==
  [i \in DOMAIN events |-> insert(events[Len(events) + 1 - i], key, Bytes(path))]

add_path(events, key, path) == InsertEach(events, key, Bytes(path))

http == Bytes(<<"http">>)

\* Mutant: the query parameters are added before the headers.
build_event_QueryFirst(self, body, header_map, query_parameters, request_path, now) ==
  LET decoded == decode_body(body, self.encoding, now) IN
    IF ~decoded.ok THEN decoded
    ELSE LET e1 == add_query_parameters(decoded.events, self.query_parameters,
                                        query_parameters)
             e2 == add_headers(e1, self.headers, header_map)
             e3 == add_path(e2, self.path_key, request_path)
         IN Ok([i \in DOMAIN e3 |-> try_insert(e3[i], source_type_key, http)])

\* SimpleHttpSource::build_event; self is the source's configuration.
build_event(self, body, header_map, query_parameters, request_path, now) ==
  LET decoded == decode_body(body, self.encoding, now) IN
    IF ~decoded.ok THEN decoded
    ELSE LET e1 == add_headers(decoded.events, self.headers, header_map)
             e2 == add_query_parameters(e1, self.query_parameters, query_parameters)
             e3 == add_path(e2, self.path_key, request_path)
         IN Ok([i \in DOMAIN e3 |-> try_insert(e3[i], source_type_key, http)])

\* ------------------------------------------------------------------ state
\* call, ret: one call of a pure function and what it returned.
\* cfg: the SimpleHttpConfig the source was built from.
\* reqs: the requests of the run, each with its handler's position.
\* pipeline: every event sent into the Pipeline, in the order it was sent.
\* clock: the wall clock's reading; the handlers read it and no step of a
\* server run moves it.
VARIABLES call, ret, cfg, reqs, pipeline, clock

vars == <<call, ret, cfg, reqs, pipeline, clock>>

\* The server is not part of a run that only applies a function.
NoServer == cfg = "none" /\ reqs = <<>> /\ pipeline = <<>> /\ clock = 0

Encodings == {"Text", "Ndjson", "Json"}

\* decode_body applied to every payload of at most MaxLen tokens, under every
\* encoding, at clock reading 0 (build_event below is applied at every reading).
InitDecode ==
  /\ call \in [op : {"decode_body"}, enc : Encodings, body : SeqsUpTo(Alphabet, MaxLen),
               now : {0}]
  /\ ret = [done |-> FALSE, res |-> Ok(<<>>)]
  /\ NoServer

Decode ==
  /\ ~ret.done
  /\ call.op = "decode_body"
  /\ ret' = [done |-> TRUE, res |-> decode_body(call.body, call.enc, call.now)]
  /\ UNCHANGED <<call, cfg, reqs, pipeline, clock>>

NextDecode == Decode

SpecDecode == InitDecode /\ [][NextDecode]_vars

\* build_event applied to one request under one configuration.
\* Request paths, as bytes: "/", "/e", "/e/p".
PathRoot == <<"/">>
PathE == <<"/", "e">>
PathEP == <<"/", "e", "/", "p">>
Paths == {PathRoot, PathE, PathEP}

HeaderConfigs == {<<>>, <<"h1">>, <<"h1", "x">>, <<"path">>, <<source_type_key>>}
QueryConfigs == {<<>>, <<"q1">>, <<"x", "q1">>, <<"path">>, <<source_type_key>>}
PathKeys == {"path", "http_path"}
MapOver(names, v) == [k \in names |-> v]
HeaderMaps == {MapOver({}, <<"hv">>), MapOver({"h1"}, <<"hv">>),
               MapOver({"h1", "x", "path", source_type_key}, <<"hv">>)}
QueryMaps == {MapOver({}, <<"qv">>), MapOver({"q1"}, <<"qv">>),
              MapOver({"q1", "x", "path", source_type_key}, <<"qv">>)}
BuildBodies ==
  {<<>>, <<Obj1>>, <<Obj2>>, <<Obj1, NL, NL, Obj2>>, <<LB, Obj2, COMMA, Obj1, RB>>,
   <<Obj2, NL, TStr>>}

InitBuild ==
  /\ call \in [op : {"build_event"},
               self : [encoding : Encodings, headers : HeaderConfigs,
                       query_parameters : QueryConfigs, path_key : PathKeys],
               body : BuildBodies, header_map : HeaderMaps, query_parameters : QueryMaps,
               request_path : Paths, now : 0..MaxClock]
  /\ ret = [done |-> FALSE, res |-> Ok(<<>>)]
  /\ NoServer

BuildEvent ==
  /\ ~ret.done
  /\ call.op = "build_event"
  /\ ret' = [done |-> TRUE,
             res |-> build_event(call.self, call.body, call.header_map,
                                 call.query_parameters, call.request_path, call.now)]
  /\ UNCHANGED <<call, cfg, reqs, pipeline, clock>>

NextBuild == BuildEvent

SpecBuild == InitBuild /\ [][NextBuild]_vars

\* ------------------------------------------------------------------ server
\* SimpleHttpConfig::build: the source and what it hands to HttpSource::run.
\* Mutant: the strict_path flag is not passed on, every route is strict.
SimpleHttpConfig_build_AlwaysStrict(config) ==
  [source |-> [encoding |-> config.encoding, headers |-> config.headers,
               query_parameters |-> config.query_parameters,
               path_key |-> config.path_key],
   path |-> config.url_path, strict_path |-> TRUE, auth |-> config.auth]

SimpleHttpConfig_build(config) ==
  [source |-> [encoding |-> config.encoding, headers |-> config.headers,
               query_parameters |-> config.query_parameters,
               path_key |-> config.path_key],
   path |-> config.url_path, strict_path |-> config.strict_path, auth |-> config.auth]

IsPrefix(p, q) == Len(p) <= Len(q) /\ SubSeq(q, 1, Len(p)) = p

\* Route match of HttpSource::run: equality when strict, else the configured
\* path is a prefix of the request path.
RouteMatches(run, path) ==
  IF run.strict_path THEN path = run.path ELSE IsPrefix(run.path, path)

METHOD_NOT_ALLOWED == 405
UNAUTHORIZED == 401
OK == 200

ServerConfigs ==
  [encoding : Encodings, headers : {<<"h1">>}, query_parameters : {<<"q1">>},
   path_key : {"path"}, url_path : {PathE}, strict_path : BOOLEAN,
   auth : BOOLEAN]
ServerBodies ==
  {<<>>, <<Obj1, NL, NL, Obj2>>, <<LB, Obj1, COMMA, Obj2, RB>>, <<Obj1, NL, TStr>>}
ServerHeaders == MapOver({"h1"}, <<"hv">>)
ServerQuery == MapOver({}, <<"qv">>)

Idle == [pc |-> "idle", path |-> <<>>, authorized |-> TRUE, decoded |-> FALSE,
         body |-> <<>>, batch |-> <<>>, sent |-> 0, status |-> 0]

Init ==
  /\ cfg \in ServerConfigs
  /\ reqs = [r \in 1..MaxReq |-> Idle]
  /\ pipeline = <<>>
  /\ clock = 0
  /\ call = "none"
  /\ ret = "none"

\* Requests are numbered in the order the server takes them up.
Arrives(r) == reqs[r].pc = "idle" /\ \A q \in 1..(r - 1) : reqs[q].pc # "idle"

\* The route does not match: rejected before the body is looked at.
RouteReject(r) ==
  /\ Arrives(r)
  /\ \E path \in Paths :
       /\ ~RouteMatches(SimpleHttpConfig_build(cfg), path)
       /\ reqs' = [reqs EXCEPT ![r] =
                     [Idle EXCEPT !.pc = "done", !.path = path,
                                  !.status = METHOD_NOT_ALLOWED]]
  /\ UNCHANGED <<call, ret, cfg, pipeline, clock>>

\* The route matches and the credentials are refused: the body is not decoded.
AuthReject(r) ==
  /\ Arrives(r)
  /\ SimpleHttpConfig_build(cfg).auth
  /\ \E path \in Paths :
       /\ RouteMatches(SimpleHttpConfig_build(cfg), path)
       /\ reqs' = [reqs EXCEPT ![r] =
                     [Idle EXCEPT !.pc = "done", !.path = path, !.authorized = FALSE,
                                  !.status = UNAUTHORIZED]]
  /\ UNCHANGED <<call, ret, cfg, pipeline, clock>>

\* The request is let through and build_event runs on its body at the clock's
\* reading.  An error is answered at once with its status; a batch is kept to
\* be sent.
Build(r) ==
  /\ Arrives(r)
  /\ \E path \in Paths, body \in ServerBodies :
       LET run == SimpleHttpConfig_build(cfg)
           res == build_event(run.source, body, ServerHeaders, ServerQuery, path, clock)
       IN /\ RouteMatches(run, path)
          /\ reqs' = [reqs EXCEPT ![r] =
                        [Idle EXCEPT !.pc = IF res.ok THEN "publishing" ELSE "done",
                                     !.path = path, !.decoded = TRUE, !.body = body,
                                     !.batch = res.events,
                                     !.status = IF res.ok THEN 0 ELSE res.status]]
  /\ UNCHANGED <<call, ret, cfg, pipeline, clock>>

\* send_all: the next event of the batch goes into the Pipeline.  The handler
\* may be suspended between two events, and other handlers run meanwhile.
Push(r) ==
  /\ reqs[r].pc = "publishing"
  /\ reqs[r].sent < Len(reqs[r].batch)
  /\ pipeline' = Append(pipeline, [req |-> r, event |-> reqs[r].batch[reqs[r].sent + 1]])
  /\ reqs' = [reqs EXCEPT ![r].sent = @ + 1]
  /\ UNCHANGED <<call, ret, cfg, clock>>

\* The whole batch is in the Pipeline: the request is answered 200.
Respond(r) ==
  /\ reqs[r].pc = "publishing"
  /\ reqs[r].sent = Len(reqs[r].batch)
  /\ reqs' = [reqs EXCEPT ![r].pc = "done", ![r].status = OK]
  /\ UNCHANGED <<call, ret, cfg, pipeline, clock>>

Next ==
  \E r \in 1..MaxReq :
    \/ RouteReject(r)
    \/ AuthReject(r)
    \/ Build(r)
    \/ Push(r)
    \/ Respond(r)

Spec == Init /\ [][Next]_vars

\* ------------------------------------------------------------------ reference notions
\* What the claims speak of, stated on the payload itself and not by running
\* the decoder.
\* A line starts at every non-newline token that begins the payload or follows
\* a newline, and runs to the token before the next newline.
LineStarts(body) ==
  {i \in 1..Len(body) : body[i] # NL /\ (i = 1 \/ body[i - 1] = NL)}
LineEnd(body, i) ==
  CHOOSE j \in i..Len(body) :
    /\ \A k \in i..j : body[k] # NL
    /\ (j = Len(body) \/ body[j + 1] = NL)
\* The k-th non-empty line.
NthStart(body, k) ==
  CHOOSE i \in LineStarts(body) : Cardinality({j \in LineStarts(body) : j < i}) = k - 1
NonEmptyLines(body) ==
  [k \in 1..Cardinality(LineStarts(body)) |->
     SubSeq(body, NthStart(body, k), LineEnd(body, NthStart(body, k)))]

\* A line is a JSON object exactly when it is one object literal.
IsObjectLine(line) == Len(line) = 1 /\ line[1] \in ObjTokens

\* The payload without its whitespace.
NotWs(t) == t # NL
Stripped(body) == SelectSeq(body, NotWs)
\* "[" obj ("," obj)* "]" or "[" "]": the objects of the array, in order.
IsArrayOfObjects(body) ==
  LET s == Stripped(body) IN
    /\ Len(s) >= 2 /\ s[1] = LB /\ s[Len(s)] = RB
    /\ \/ Len(s) = 2
       \/ /\ Len(s) % 2 = 1
          /\ \A i \in 2..(Len(s) - 1) :
               IF i % 2 = 0 THEN s[i] \in ObjTokens ELSE s[i] = COMMA
IsObjectToken(t) == t \in ObjTokens
ObjectsOf(body) == SelectSeq(body, IsObjectToken)
IsSingleObject(body) == Len(Stripped(body)) = 1 /\ Stripped(body)[1] \in ObjTokens

\* A decoded record holds the fields of the object literal it was read from.
HoldsFieldsOf(event, tok) ==
  \A k \in DOMAIN ObjFields(tok) :
    k # timestamp_key => (k \in DOMAIN event /\ event[k] = ObjFields(tok)[k])

Done(enc) == ret.done /\ call.op = "decode_body" /\ call.enc = enc

\* ------------------------------------------------------------------ C2
\* C2: in Ndjson mode, when some non-empty line of the payload is not a JSON
\* object, decode_body returns an error of status 400 and no records, wherever
\* that line stands and whatever the other lines are.
C2_NdjsonAllOrNothing ==
  (Done("Ndjson") /\ \E k \in DOMAIN NonEmptyLines(call.body) :
                        ~IsObjectLine(NonEmptyLines(call.body)[k]))
    => (~ret.res.ok /\ ret.res.status = 400 /\ ret.res.events = <<>>)

\* A well-formed object line comes first and a line that is no object later.
C2_Witness ==
  /\ Done("Ndjson")
  /\ \E i, j \in DOMAIN NonEmptyLines(call.body) :
       /\ i < j
       /\ IsObjectLine(NonEmptyLines(call.body)[i])
       /\ ~IsObjectLine(NonEmptyLines(call.body)[j])
  /\ ~ret.res.ok

\* ------------------------------------------------------------------ C3
\* C3: in Text mode decode_body succeeds on every payload with one record per
\* non-empty line, in line order, each record's message that line's bytes; the
\* payload with a newline appended decodes to the same records; a payload with
\* no non-empty line decodes to zero records.
C3_TextLines ==
  Done("Text") =>
    /\ ret.res.ok
    /\ Len(ret.res.events) = Len(NonEmptyLines(call.body))
    /\ \A k \in DOMAIN ret.res.events :
         ret.res.events[k][message_key] = Bytes(NonEmptyLines(call.body)[k])
    /\ decode_body(Append(call.body, NL), "Text", call.now) = ret.res
    /\ (\A i \in DOMAIN call.body : call.body[i] = NL) => ret.res.events = <<>>

\* Two records out of a payload with a blank line between them and no trailing
\* newline.
C3_Witness ==
  /\ Done("Text")
  /\ Len(ret.res.events) = 2
  /\ \E i \in 1..(Len(call.body) - 1) : call.body[i] = NL /\ call.body[i + 1] = NL
  /\ call.body[Len(call.body)] # NL

\* ------------------------------------------------------------------ C4
\* C4: in Json mode an array of N objects (N >= 0) decodes to N records in
\* array order and a single object to exactly one record, both a success
\* (status 200).
C4_JsonShapeDuality ==
  Done("Json") =>
    /\ IsArrayOfObjects(call.body) =>
         /\ ret.res.ok /\ ret.res.status = 200
         /\ Len(ret.res.events) = Len(ObjectsOf(call.body))
         /\ \A k \in DOMAIN ret.res.events :
              HoldsFieldsOf(ret.res.events[k], ObjectsOf(call.body)[k])
    /\ IsSingleObject(call.body) =>
         /\ ret.res.ok /\ ret.res.status = 200
         /\ Len(ret.res.events) = 1
         /\ HoldsFieldsOf(ret.res.events[1], ObjectsOf(call.body)[1])

\* An array of two different objects, decoded.
C4_Witness ==
  /\ Done("Json")
  /\ IsArrayOfObjects(call.body)
  /\ Len(ret.res.events) = 2
  /\ ObjectsOf(call.body)[1] # ObjectsOf(call.body)[2]

\* ------------------------------------------------------------------ C5
ScalarKinds == {"String", "Number", "Bool", "Null"}
JsonKinds == ScalarKinds \cup {"Object", "Array"}
Unparseable(body) == ~from_slice(body).ok
TopLevelScalar(body) == from_slice(body).ok /\ from_slice(body).val.kind \in ScalarKinds
ArrayWithNonObject(body) ==
  /\ from_slice(body).ok /\ from_slice(body).val.kind = "Array"
  /\ \E i \in DOMAIN from_slice(body).val.elems : from_slice(body).val.elems[i].kind # "Object"
FirstNonObject(elems) ==
  elems[CHOOSE i \in DOMAIN elems :
          elems[i].kind # "Object" /\ \A j \in 1..(i - 1) : elems[j].kind = "Object"]
Aborted400 == ~ret.res.ok /\ ret.res.status = 400 /\ ret.res.events = <<>>
NamesAKind == ret.res.message # <<>> /\ ret.res.message[Len(ret.res.message)] \in JsonKinds

\* C5 as stated: in Json mode an unparseable payload, a top-level scalar and an
\* array with a non-object element all abort with status 400, zero records and
\* an error message that names the observed JSON kind.
C5_Original ==
  (Done("Json") /\ (Unparseable(call.body) \/ TopLevelScalar(call.body)
                      \/ ArrayWithNonObject(call.body)))
    => (Aborted400 /\ NamesAKind)

\* C5 as amended: all three abort with status 400 and zero records; the message
\* names the kind of the top-level scalar, or of the first non-object element of
\* the array; for an unparseable payload it carries the parse error and names
\* no kind.
C5_JsonRejects ==
  Done("Json") =>
    /\ Unparseable(call.body) =>
         Aborted400 /\ ret.res.message = <<"Bad JSON", "Error parsing Json", SerdeError>>
    /\ TopLevelScalar(call.body) =>
         Aborted400 /\ ret.res.message =
           <<"Bad JSON", "Expected Array or Object, got", from_slice(call.body).val.kind>>
    /\ ArrayWithNonObject(call.body) =>
         Aborted400 /\ ret.res.message =
           <<"Bad JSON", "Expected Object, got",
             FirstNonObject(from_slice(call.body).val.elems).kind>>

\* An array whose first element is an object and whose second is not.
C5_Witness ==
  /\ Done("Json")
  /\ ArrayWithNonObject(call.body)
  /\ from_slice(call.body).val.elems[1].kind = "Object"
  /\ Aborted400

\* ------------------------------------------------------------------ C6
InSeq(x, q) == \E i \in DOMAIN q : q[i] = x
Built == ret.done /\ call.op = "build_event" /\ ret.res.ok
\* What decode_body alone gives for the request.
Decoded == decode_body(call.body, call.self.encoding, call.now).events

\* C6 as stated: every record of a built batch holds every configured header
\* name and every configured query-parameter name, with the request's value for
\* it when the request has one and Null when it has none.
C6_Original ==
  Built =>
    \A i \in DOMAIN ret.res.events :
      /\ \A h \in DOMAIN call.self.headers :
           LET name == call.self.headers[h] IN
             /\ name \in DOMAIN ret.res.events[i]
             /\ ret.res.events[i][name] = ValueFromLookup(call.header_map, name)
      /\ \A q \in DOMAIN call.self.query_parameters :
           LET name == call.self.query_parameters[q] IN
             /\ name \in DOMAIN ret.res.events[i]
             /\ ret.res.events[i][name] = ValueFromLookup(call.query_parameters, name)

\* C6 as amended: the key is never omitted; it holds the request's value or Null
\* for a header name that is neither a configured query parameter nor the path
\* key, and for a query-parameter name that is not the path key.
C6_AbsentAsNull ==
  Built =>
    \A i \in DOMAIN ret.res.events :
      /\ \A h \in DOMAIN call.self.headers :
           LET name == call.self.headers[h] IN
             /\ name \in DOMAIN ret.res.events[i]
             /\ (~InSeq(name, call.self.query_parameters) /\ name # call.self.path_key)
                  => ret.res.events[i][name] = ValueFromLookup(call.header_map, name)
      /\ \A q \in DOMAIN call.self.query_parameters :
           LET name == call.self.query_parameters[q] IN
             /\ name \in DOMAIN ret.res.events[i]
             /\ name # call.self.path_key
                  => ret.res.events[i][name] = ValueFromLookup(call.query_parameters, name)

\* A batch of two records built with one configured header present in the
\* request and another absent from it.
C6_Witness ==
  /\ Built
  /\ Len(ret.res.events) = 2
  /\ \E h1, h2 \in DOMAIN call.self.headers :
       /\ call.self.headers[h1] \in DOMAIN call.header_map
       /\ call.self.headers[h2] \notin DOMAIN call.header_map
       /\ ret.res.events[1][call.self.headers[h2]] = Null

\* ------------------------------------------------------------------ C7
Configured(name) ==
  \/ InSeq(name, call.self.headers)
  \/ InSeq(name, call.self.query_parameters)
  \/ name = call.self.path_key
\* The values the request gives for a name, by the roles it is configured in.
RequestDerived(name) ==
  (IF InSeq(name, call.self.headers)
     THEN {ValueFromLookup(call.header_map, name)} ELSE {})
  \cup (IF InSeq(name, call.self.query_parameters)
          THEN {ValueFromLookup(call.query_parameters, name)} ELSE {})
  \cup (IF name = call.self.path_key THEN {Bytes(call.request_path)} ELSE {})

SourceKindKept(i) ==
  IF source_type_key \in DOMAIN Decoded[i]
    THEN ret.res.events[i][source_type_key] = Decoded[i][source_type_key]
  ELSE ret.res.events[i][source_type_key] = http

Overwritten(i) ==
  \A name \in DOMAIN Decoded[i] :
    Configured(name) => ret.res.events[i][name] \in RequestDerived(name)

\* C7 as stated: a user-supplied field under the source-kind key is left
\* unchanged (the value is "http" when there is none), and a user-supplied
\* field under a configured header name, query-parameter name or the path key
\* is replaced by the request-derived value or Null.
C7_Original ==
  Built => \A i \in DOMAIN ret.res.events : SourceKindKept(i) /\ Overwritten(i)

\* C7 as amended: the same, the first half for a source-kind key that is not
\* itself a configured header name, query-parameter name or the path key.
C7_OverwriteAsymmetry ==
  Built =>
    \A i \in DOMAIN ret.res.events :
      /\ ~Configured(source_type_key) => SourceKindKept(i)
      /\ Overwritten(i)

\* A decoded record with user-supplied fields under the source-kind key and
\* under a configured header name, built.
C7_Witness ==
  /\ Built
  /\ \E i \in DOMAIN ret.res.events :
       /\ source_type_key \in DOMAIN Decoded[i]
       /\ ~Configured(source_type_key)
       /\ ret.res.events[i][source_type_key] = user
       /\ \E h \in DOMAIN call.self.headers :
            /\ call.self.headers[h] \in DOMAIN Decoded[i]
            /\ ret.res.events[i][call.self.headers[h]] # user

\* ------------------------------------------------------------------ C1
\* The events of request r in the Pipeline, in the order they went in.
Mine(r) ==
  LET from(e) == e.req = r
      sent == SelectSeq(pipeline, from)
  IN [k \in DOMAIN sent |-> sent[k].event]

\* A payload the encoding accepts, and the sources of its records in order:
\* the non-empty lines (Text, Ndjson) or the object literals (Json).
WellFormed(enc, body) ==
  CASE enc = "Text" -> TRUE
    [] enc = "Ndjson" ->
         \A k \in DOMAIN NonEmptyLines(body) : IsObjectLine(NonEmptyLines(body)[k])
    [] enc = "Json" -> IsArrayOfObjects(body) \/ IsSingleObject(body)
RecordSources(enc, body) ==
  IF ~WellFormed(enc, body) THEN <<>>
  ELSE IF enc = "Json" THEN ObjectsOf(body)
  ELSE NonEmptyLines(body)

\* C1: a request whose body was handed to build_event is answered 400 with none
\* of its records in the Pipeline when the body does not decode, and 200 with
\* every record in the Pipeline when it does; once a request is answered the
\* Pipeline holds none or all of its batch.
C1_BatchAtomicity ==
  \A r \in DOMAIN reqs :
    reqs[r].pc = "done" =>
      /\ reqs[r].decoded =>
           IF WellFormed(cfg.encoding, reqs[r].body)
             THEN /\ reqs[r].status = 200
                  /\ Len(Mine(r)) = Len(RecordSources(cfg.encoding, reqs[r].body))
             ELSE reqs[r].status = 400 /\ Mine(r) = <<>>
      /\ (Mine(r) = <<>> \/ Mine(r) = reqs[r].batch)

\* One request answered 400 with nothing published although its first line is
\* a well-formed object, another answered 200 with both its records published.
C1_Witness ==
  \E r, q \in DOMAIN reqs :
    /\ reqs[r].pc = "done" /\ reqs[r].status = 400 /\ Mine(r) = <<>>
    /\ reqs[r].body = <<Obj1, NL, TStr>> /\ cfg.encoding = "Ndjson"
    /\ reqs[q].pc = "done" /\ reqs[q].status = 200 /\ Len(Mine(q)) = 2

\* ------------------------------------------------------------------ C8
Failed(q) == reqs[q].pc = "done" /\ reqs[q].status # 200
GoodRequest(r) ==
  /\ RouteMatches(SimpleHttpConfig_build(cfg), reqs[r].path)
  /\ reqs[r].authorized
  /\ reqs[r].decoded
  /\ WellFormed(cfg.encoding, reqs[r].body)

CameFrom(event, src) ==
  IF cfg.encoding = "Text" THEN event[message_key] = Bytes(src)
  ELSE IF cfg.encoding = "Json" THEN event["key"] = ObjFields(src)["key"]
  ELSE event["key"] = ObjFields(src[1])["key"]

\* C10: whatever the interleaving, the events of one request stand in the
\* Pipeline in the order of the lines or array elements they were decoded
\* from, the k-th event from the k-th source, none twice and, once the request
\* is answered 200, none missing.
C10_OrderWithinRequest ==
  \A r \in DOMAIN reqs :
    LET srcs == RecordSources(cfg.encoding, reqs[r].body) IN
      /\ Len(Mine(r)) <= Len(srcs)
      /\ \A k \in DOMAIN Mine(r) : CameFrom(Mine(r)[k], srcs[k])
      /\ (reqs[r].pc = "done" /\ reqs[r].status = 200) => Len(Mine(r)) = Len(srcs)

\* Two requests answered 200 with two records each, an event of one between
\* the two events of the other.
C10_Witness ==
  /\ \E i, j, k \in DOMAIN pipeline :
       /\ i < j /\ j < k
       /\ pipeline[i].req = pipeline[k].req
       /\ pipeline[j].req # pipeline[i].req
  /\ \A r \in 1..2 : reqs[r].pc = "done" /\ reqs[r].status = 200 /\ Len(Mine(r)) = 2

\* ------------------------------------------------------------------ C11
\* The keys build_event may set: the configured header and query-parameter
\* names, the path key and the source-kind key.
InjectedKeys ==
  {call.self.headers[h] : h \in DOMAIN call.self.headers}
  \cup {call.self.query_parameters[q] : q \in DOMAIN call.self.query_parameters}
  \cup {call.self.path_key, source_type_key}

\* C11: the batch build_event returns is as long as the batch decode_body
\* returned, its i-th record is the i-th decoded record with keys injected: no
\* other key is added and every field under another key keeps its decoded
\* value.
C11_EnrichmentKeepsBatch ==
  Built =>
    /\ Len(ret.res.events) = Len(Decoded)
    /\ \A i \in DOMAIN ret.res.events :
         /\ DOMAIN Decoded[i] \subseteq DOMAIN ret.res.events[i]
         /\ DOMAIN ret.res.events[i] \subseteq DOMAIN Decoded[i] \cup InjectedKeys
         /\ \A k \in DOMAIN Decoded[i] \ InjectedKeys :
              ret.res.events[i][k] = Decoded[i][k]

\* Two decoded records that differ under a key that is not injected, built with
\* a configured header that replaces a user-supplied field of one of them.
C11_Witness ==
  /\ Built
  /\ Len(ret.res.events) = 2
  /\ \E k \in (DOMAIN Decoded[1] \cap DOMAIN Decoded[2]) \ InjectedKeys :
       Decoded[1][k] # Decoded[2][k]
  /\ \E i \in DOMAIN Decoded, h \in DOMAIN call.self.headers :
       /\ call.self.headers[h] \in DOMAIN Decoded[i]
       /\ ret.res.events[i][call.self.headers[h]] # Decoded[i][call.self.headers[h]]

\* ------------------------------------------------------------------ C12
JsonFamily == call.self.encoding \in {"Ndjson", "Json"}
\* The object literal the i-th record of the call's payload was read from.
SourceObject(i) == ObjectsOf(call.body)[i]

\* C12 as stated: in Ndjson and Json modes every produced record holds, under
\* the timestamp key, the time at which it was decoded, also when the input
\* object has a field of that name.
C12_Original ==
  (Built /\ JsonFamily) =>
    \A i \in DOMAIN Decoded :
      /\ timestamp_key \in DOMAIN Decoded[i]
      /\ Decoded[i][timestamp_key] = Timestamp(call.now)

\* C12 as amended: every produced record holds the timestamp key; its value is
\* the time at which the record was decoded when the input object has no field
\* of that name, and that field's value when it has one.  build_event leaves
\* the key as decoded when it is not a configured name.
C12_TimestampInjected ==
  (Built /\ JsonFamily) =>
    \A i \in DOMAIN Decoded :
      /\ timestamp_key \in DOMAIN Decoded[i]
      /\ Decoded[i][timestamp_key] =
           IF timestamp_key \in DOMAIN ObjFields(SourceObject(i))
             THEN ObjFields(SourceObject(i))[timestamp_key]
           ELSE Timestamp(call.now)
      /\ timestamp_key \notin InjectedKeys
           => ret.res.events[i][timestamp_key] = Decoded[i][timestamp_key]

\* A batch decoded after the clock moved on, one record from an object with a
\* field named by the timestamp key and one from an object without.
C12_Witness ==
  /\ Built /\ JsonFamily
  /\ call.now > 0
  /\ \E i, j \in DOMAIN Decoded :
       /\ timestamp_key \in DOMAIN ObjFields(SourceObject(i))
       /\ Decoded[i][timestamp_key] = user
       /\ timestamp_key \notin DOMAIN ObjFields(SourceObject(j))
       /\ Decoded[j][timestamp_key] = Timestamp(call.now)

\* ------------------------------------------------------------------ C13
\* C13: the keys are injected in the order headers, query parameters, path
\* key, source-kind key, and a name configured in more than one role holds the
\* later role's value: the query parameter's value or Null for a name that is
\* a header and a query parameter, the request path for a header or query
\* parameter named as the path key; the path key always holds the request path.
C13_InjectionOrder ==
  Built =>
    \A i \in DOMAIN ret.res.events :
      /\ ret.res.events[i][call.self.path_key] = Bytes(call.request_path)
      /\ \A h \in DOMAIN call.self.headers :
           LET name == call.self.headers[h] IN
             /\ (InSeq(name, call.self.query_parameters) /\ name # call.self.path_key)
                  => ret.res.events[i][name] = ValueFromLookup(call.query_parameters, name)
             /\ name = call.self.path_key
                  => ret.res.events[i][name] = Bytes(call.request_path)
      /\ \A q \in DOMAIN call.self.query_parameters :
           call.self.query_parameters[q] = call.self.path_key
             => ret.res.events[i][call.self.query_parameters[q]] = Bytes(call.request_path)

\* A name configured as header and as query parameter, sent as a header and
\* not as a parameter: the record holds Null under it.
C13_Witness ==
  /\ Built
  /\ ret.res.events # <<>>
  /\ \E h \in DOMAIN call.self.headers :
       /\ InSeq(call.self.headers[h], call.self.query_parameters)
       /\ call.self.headers[h] \in DOMAIN call.header_map
       /\ call.self.headers[h] \notin DOMAIN call.query_parameters
       /\ ret.res.events[1][call.self.headers[h]] = Null

====
